---- MODULE Spec2Model ----
(***************************************************************************)
(* Model of picosec/echo/echo6.c: a single-connection TCP line-echo server *)
(* written with a protosocket (struct psock ps bound to char buffer[10]),  *)
(* the protothread handle_connection() and the process thread              *)
(* example_psock_server_process that drives it once per tcpip event.       *)
(*                                                                         *)
(* echo6.c is modelled from its source.  The protosocket primitives        *)
(* (PSOCK_INIT, PSOCK_SEND, PSOCK_READTO, PSOCK_CLOSE, PSOCK_DATALEN) and  *)
(* the transport that delivers events are not part of echo6.c; they are    *)
(* modelled from the specification of the Buffered Line Socket and of the  *)
(* transport interface.                                                    *)
(***************************************************************************)
EXTENDS Integers, Sequences, FiniteSets, TLC

(* ------------------------------ bounds -------------------------------- *)
\* largest number of bytes the transport takes in one hand-over
MSS == 32
\* number of connections accepted in one run
MaxConns == 2
\* number of bytes a peer sends on one connection
MaxInput == 12
\* number of retransmissions the transport asks for on one connection
MaxRexmit == 1

(* ------------------------- program constants --------------------------- *)
\* static char buffer[10]
C == 10
\* the '\n' of PSOCK_READTO(p, '\n')
Delim == 10
\* "Welcome, please type something and press return.\n"
Greeting ==
  <<87, 101, 108, 99, 111, 109, 101, 44, 32, 112, 108, 101, 97, 115, 101,
    32, 116, 121, 112, 101, 32, 115, 111, 109, 101, 116, 104, 105, 110, 103,
    32, 97, 110, 100, 32, 112, 114, 101, 115, 115, 32, 114, 101, 116, 117,
    114, 110, 46, 10>>
\* "Got the following data: "
Label ==
  <<71, 111, 116, 32, 116, 104, 101, 32, 102, 111, 108, 108, 111, 119, 105,
    110, 103, 32, 100, 97, 116, 97, 58, 32>>
\* "Good bye!\r\n"
Farewell == <<71, 111, 111, 100, 32, 98, 121, 101, 33, 13, 10>>

(* ------------------------------ helpers -------------------------------- *)
Min(a, b) == IF a <= b THEN a ELSE b

IsPrefix(a, b) == Len(a) <= Len(b) /\ a = SubSeq(b, 1, Len(a))

\* index of the first occurrence of byte c in q, 0 when there is none
FirstIndex(q, c) ==
  IF \E i \in DOMAIN q : q[i] = c
  THEN CHOOSE i \in DOMAIN q : q[i] = c /\ \A j \in 1..(i - 1) : q[j] # c
  ELSE 0

\* the element of a one-element set; {F(r) : r \in {x}} is what the rest of a
\* computation, F, makes of the value x its first step leaves
The(S) == CHOOSE y \in S : TRUE

(* ------------------------------- state --------------------------------- *)
VARIABLES
  state,     \* position of the process thread: "LISTENING" (line 172) or "SERVICING" (line 196)
  ps,        \* static struct psock ps
  buffer,    \* static char buffer[10]
  inq,       \* transport: inbound bytes of the connection not yet pulled
  sent,      \* transport: fresh bytes handed over on the current connection
  closes,    \* transport: close requests received on the current connection
  conn,      \* transport: number of connections accepted so far
  nin,       \* peer: bytes sent on the current connection
  ndelim,    \* peer: delimiter bytes sent on the current connection
  nrexmit,   \* transport: chunks handed over again on the current connection
  rx,        \* history: the peer's bytes up to and including its first delimiter
  nfrag,     \* history: data events that carried bytes of rx (counted up to 3)
  evkind,    \* history: kind of the last event processed
  prev,      \* history: state in which the last event was processed
  invoked,   \* history: handle_connection ran for the last event
  ninit,     \* history: number of times PSOCK_INIT has run
  ncalls,    \* history: number of handle_connection calls made for the last event
  early,     \* history: input arrived while the script had not reached the read step
  nev        \* history: events processed since the connect event (counted up to 2)

vars == <<state, ps, buffer, inq, sent, closes, conn, nin, ndelim, nrexmit,
          rx, nfrag, evkind, prev, invoked, ninit, ncalls, early, nev>>

Terminal == {"closed", "aborted", "timedout"}

(* ------------------------- the peer's input ---------------------------- *)
\* the data byte the peer of connection c sends at stream offset n (0-based):
\* "0123456789ABCDE.." on odd connections, "abcdefghij.." on even ones
PeerByte(c, n) ==
  IF c % 2 = 1 THEN (IF n < 10 THEN 48 + n ELSE 55 + n) ELSE 97 + n

Run(c, n, k) == [i \in 1..k |-> PeerByte(c, n + i - 1)]

\* the payloads one event can carry.  The peer sends one line: a run of data
\* bytes, then possibly the delimiter, then possibly one more data byte, cut
\* into events at any place.  n bytes have been sent so far, d of them
\* delimiters and t of them after the delimiter
Chunks(c, n, d, t) ==
  IF d = 0
  THEN {Run(c, n, k) : k \in 0..(MaxInput - n)}
       \cup {Run(c, n, k) \o <<Delim>> : k \in 0..(MaxInput - n - 1)}
       \cup {Run(c, n, k) \o <<Delim>> \o Run(c, n + k + 1, 1) :
               k \in 0..(MaxInput - n - 2)}
  ELSE IF t = 0 /\ n < MaxInput THEN {<<>>, Run(c, n, 1)} ELSE {<<>>}

\* the tcpip events the transport can deliver
Events(c, n, d, t, r) ==
  The({
    [kind : {"connected"}, acked : {FALSE}, rexmit : {FALSE}, data : {<<>>}]
    \cup [kind : {"aborted", "timedout"}, acked : {FALSE}, rexmit : {FALSE},
          data : {<<>>}]
    \cup [kind : {"event", "closed"}, acked : BOOLEAN, rexmit : {FALSE},
          data : payloads]
    \cup (IF r < MaxRexmit
          THEN [kind : {"event"}, acked : {FALSE}, rexmit : {TRUE},
                data : payloads]
          ELSE {}) :
      payloads \in {Chunks(c, n, d, t)}})

(* ------------------------- protosocket primitives ---------------------- *)
\* The operators below work on a record m that bundles what a call of
\* handle_connection can touch: the fields of ps, buffer[], and the
\* transport's inq, sent, closes and nrexmit, and the counts of PSOCK_INIT
\* runs and of handle_connection calls.  m.done is the primitive's result: TRUE when the operation
\* completed, FALSE when it suspended.

\* PSOCK_INIT(&ps, buffer, sizeof(buffer)): a fresh task and an empty buffer
\* of the given size; the bytes of buffer[] are left as they are
PSOCK_INIT(m, size) ==
  [m EXCEPT !.lc = "BEGIN", !.fill = 0, !.bufsize = size,
            !.sendpos = 0, !.unacked = 0, !.inits = @ + 1]

\* PSOCK_DATALEN(p)
PSOCK_DATALEN(m) == m.fill

\* hand the next chunk of msg to the transport
HandOver(m, msg) ==
  LET n == Min(MSS, Len(msg) - m.sendpos)
  IN  [m EXCEPT !.sent = @ \o SubSeq(msg, m.sendpos + 1, m.sendpos + n),
                !.sendpos = @ + n, !.unacked = n, !.done = FALSE]

\* PSOCK_SEND(p, msg, len): resumed = FALSE when the script reaches the send,
\* TRUE when the script is resumed inside it by event ev.  An acknowledgement
\* lets the send go on with fresh bytes or complete; a retransmission request
\* hands the outstanding chunk over again, which adds nothing to sent
PSOCK_SEND(m, msg, ev, resumed) ==
  IF ~resumed
  THEN IF Len(msg) = 0
       THEN [m EXCEPT !.done = TRUE]
       ELSE HandOver([m EXCEPT !.sendpos = 0, !.unacked = 0], msg)
  ELSE IF ev.acked
       THEN IF m.sendpos >= Len(msg)
            THEN [m EXCEPT !.sendpos = 0, !.unacked = 0, !.done = TRUE]
            ELSE HandOver(m, msg)
       ELSE IF ev.rexmit /\ m.unacked > 0
            THEN [m EXCEPT !.resent = @ + 1, !.done = FALSE]
            ELSE [m EXCEPT !.done = FALSE]

\* PSOCK_READTO(p, c): pull what the transport holds; keep the bytes before
\* the delimiter while there is room, discard the rest; complete on the
\* delimiter
PSOCK_READTO(m, c) ==
  The({The({The({
    [m EXCEPT !.buffer = [i \in 1..C |->
                            IF i > m.fill /\ i <= m.fill + n
                            THEN pre[i - m.fill] ELSE @[i]],
              !.fill = @ + n,
              !.inq = <<>>,
              !.done = (idx # 0)] :
      n \in {Min(Len(pre), m.bufsize - m.fill)}}) :
      pre \in {IF idx = 0 THEN m.inq ELSE SubSeq(m.inq, 1, idx - 1)}}) :
      idx \in {FirstIndex(m.inq, c)}})

\* PSOCK_CLOSE(p): ask the transport for a graceful close
PSOCK_CLOSE(m) == [m EXCEPT !.closes = @ + 1]

(* -------------------------- handle_connection -------------------------- *)
\* variant of Line91: PSOCK_CLOSE(p) is left out
Line91_NoClose(m) == [m EXCEPT !.lc = "END"]

\* PSOCK_CLOSE(p); PSOCK_END(p);
Line91(m) == [PSOCK_CLOSE(m) EXCEPT !.lc = "END"]

\* PSOCK_SEND_STR(p, "Good bye!\r\n");
Line86(m, ev, resumed) ==
  The({IF r.done THEN Line91(r) ELSE [r EXCEPT !.lc = "SEND_FAREWELL"] :
         r \in {PSOCK_SEND(m, Farewell, ev, resumed)}})

\* variant of Line85: sends sizeof(buffer) bytes instead of PSOCK_DATALEN(p)
Line85_WholeBuffer(m, ev, resumed) ==
  The({IF r.done THEN Line86(r, ev, FALSE) ELSE [r EXCEPT !.lc = "SEND_DATA"] :
         r \in {PSOCK_SEND(m, SubSeq(m.buffer, 1, m.bufsize), ev, resumed)}})

\* variant of Line85: sends PSOCK_DATALEN(p) + 1 bytes
Line85_OneMore(m, ev, resumed) ==
  The({IF r.done THEN Line86(r, ev, FALSE) ELSE [r EXCEPT !.lc = "SEND_DATA"] :
         r \in {PSOCK_SEND(m, SubSeq(m.buffer, 1,
                                      Min(PSOCK_DATALEN(m) + 1, C)),
                            ev, resumed)}})

\* PSOCK_SEND(p, buffer, PSOCK_DATALEN(p));
Line85(m, ev, resumed) ==
  The({IF r.done THEN Line86(r, ev, FALSE) ELSE [r EXCEPT !.lc = "SEND_DATA"] :
         r \in {PSOCK_SEND(m, SubSeq(m.buffer, 1, PSOCK_DATALEN(m)), ev, resumed)}})

\* PSOCK_SEND_STR(p, "Got the following data: ");
Line84(m, ev, resumed) ==
  The({IF r.done THEN Line85(r, ev, FALSE) ELSE [r EXCEPT !.lc = "SEND_LABEL"] :
         r \in {PSOCK_SEND(m, Label, ev, resumed)}})

\* variant of Line76: goes on to the label whether or not the read completed
Line76_NoWait(m, ev) == Line84(PSOCK_READTO(m, Delim), ev, FALSE)

\* variant of Line76: every resumption starts the read over with an empty buffer
Line76_Restart(m, ev) ==
  The({IF r.done THEN Line84(r, ev, FALSE) ELSE [r EXCEPT !.lc = "READTO"] :
         r \in {PSOCK_READTO([m EXCEPT !.fill = 0], Delim)}})

\* variant of Line76: reads to '0' instead of '\n'
Line76_WrongDelim(m, ev) ==
  The({IF r.done THEN Line84(r, ev, FALSE) ELSE [r EXCEPT !.lc = "READTO"] :
         r \in {PSOCK_READTO(m, 48)}})

\* variant of Line76: the read also ends when the buffer is full
Line76_StopWhenFull(m, ev) ==
  The({IF r.done \/ r.fill >= r.bufsize
       THEN Line84(r, ev, FALSE) ELSE [r EXCEPT !.lc = "READTO"] :
         r \in {PSOCK_READTO(m, Delim)}})

\* PSOCK_READTO(p, '\n');
Line76(m, ev) ==
  The({IF r.done THEN Line84(r, ev, FALSE) ELSE [r EXCEPT !.lc = "READTO"] :
         r \in {PSOCK_READTO(m, Delim)}})

\* variant of Line65: goes on to the read without waiting for the send
Line65_NoWait(m, ev, resumed) ==
  Line76(PSOCK_SEND(m, Greeting, ev, resumed), ev)

\* PSOCK_SEND_STR(p, "Welcome, please type something and press return.\n");
Line65(m, ev, resumed) ==
  The({IF r.done THEN Line76(r, ev) ELSE [r EXCEPT !.lc = "SEND_GREETING"] :
         r \in {PSOCK_SEND(m, Greeting, ev, resumed)}})

\* variant of handle_connection: the first call yields before the greeting
handle_connection_Yield(m, ev) ==
  CASE m.lc = "BEGIN"         -> [m EXCEPT !.lc = "SEND_GREETING"]
    [] m.lc = "SEND_GREETING" -> Line65(m, ev, m.sendpos > 0)
    [] m.lc = "READTO"        -> Line76(m, ev)
    [] m.lc = "SEND_LABEL"    -> Line84(m, ev, TRUE)
    [] m.lc = "SEND_DATA"     -> Line85(m, ev, TRUE)
    [] m.lc = "SEND_FAREWELL" -> Line86(m, ev, TRUE)
    [] m.lc = "END"           -> m

\* variant of handle_connection: a finished script starts over at the next call
handle_connection_Restart(m, ev) ==
  CASE m.lc = "BEGIN"         -> Line65(m, ev, FALSE)
    [] m.lc = "SEND_GREETING" -> Line65(m, ev, TRUE)
    [] m.lc = "READTO"        -> Line76(m, ev)
    [] m.lc = "SEND_LABEL"    -> Line84(m, ev, TRUE)
    [] m.lc = "SEND_DATA"     -> Line85(m, ev, TRUE)
    [] m.lc = "SEND_FAREWELL" -> Line86(m, ev, TRUE)
    [] m.lc = "END"           -> Line65([m EXCEPT !.fill = 0], ev, FALSE)

\* PT_THREAD(handle_connection(struct psock *p)): PSOCK_BEGIN dispatches on
\* the resume point
handle_connection(m, ev) ==
  CASE m.lc = "BEGIN"         -> Line65(m, ev, FALSE)
    [] m.lc = "SEND_GREETING" -> Line65(m, ev, TRUE)
    [] m.lc = "READTO"        -> Line76(m, ev)
    [] m.lc = "SEND_LABEL"    -> Line84(m, ev, TRUE)
    [] m.lc = "SEND_DATA"     -> Line85(m, ev, TRUE)
    [] m.lc = "SEND_FAREWELL" -> Line86(m, ev, TRUE)
    [] m.lc = "END"           -> m

(* ------------------------------ process -------------------------------- *)
\* variant of uip_connected: an event that carries new data or an
\* acknowledgement is taken for a connect event as well
uip_connected_OrData(ev) == ev.kind = "connected" \/ ev.kind = "event"

\* if(uip_connected()) at line 178
uip_connected(ev) == ev.kind = "connected"

\* variant of LoopCondition: uip_timedout() is not tested
LoopCondition_NoTimeout(ev) ==
  ~(ev.kind = "aborted" \/ ev.kind = "closed")

\* variant of LoopCondition: uip_closed() is not tested
LoopCondition_NoClosed(ev) ==
  ~(ev.kind = "aborted" \/ ev.kind = "timedout")

\* the condition of while(!(uip_aborted() || uip_closed() || uip_timedout()))
LoopCondition(ev) ==
  ~(ev.kind = "aborted" \/ ev.kind = "closed" \/ ev.kind = "timedout")

\* variant of Bundle: only the payload of the event being processed can be
\* pulled, earlier unread payloads are gone
Bundle_EventDataOnly(ev) ==
  [lc |-> ps.lc, fill |-> ps.fill, bufsize |-> ps.bufsize,
   sendpos |-> ps.sendpos, unacked |-> ps.unacked, done |-> FALSE,
   buffer |-> buffer, inq |-> ev.data, sent |-> sent,
   closes |-> closes, resent |-> nrexmit, inits |-> ninit, calls |-> 0]

\* the bundle handle_connection works on, after the transport has made the
\* event's payload available
Bundle(ev) ==
  [lc |-> ps.lc, fill |-> ps.fill, bufsize |-> ps.bufsize,
   sendpos |-> ps.sendpos, unacked |-> ps.unacked, done |-> FALSE,
   buffer |-> buffer, inq |-> inq \o ev.data, sent |-> sent,
   closes |-> closes, resent |-> nrexmit, inits |-> ninit, calls |-> 0]

\* the fields of ps in a bundle
PsOf(m) ==
  [lc |-> m.lc, fill |-> m.fill, bufsize |-> m.bufsize,
   sendpos |-> m.sendpos, unacked |-> m.unacked]

\* variant of Line184: the protosocket is not initialised
Line184_NoInit(m) == m

\* line 184: PSOCK_INIT(&ps, buffer, sizeof(buffer));
Line184(m) == PSOCK_INIT(m, C)

\* variant of InnerLoopBody: a connect event initialises the protosocket again
InnerLoopBody_Reinit(m, ev) ==
  IF uip_connected(ev)
  THEN handle_connection(PSOCK_INIT([m EXCEPT !.calls = @ + 1], C), ev)
  ELSE handle_connection([m EXCEPT !.calls = @ + 1], ev)

\* variant of InnerLoopBody: handle_connection is called only for events that
\* carry data or an acknowledgement
InnerLoopBody_OnlyNewData(m, ev) ==
  IF ev.data # <<>> \/ ev.acked
  THEN handle_connection([m EXCEPT !.calls = @ + 1], ev)
  ELSE m

\* lines 196-204, the body of the inner loop once the event has arrived:
\* handle_connection(&ps);
InnerLoopBody(m, ev) ==
  The({handle_connection(r, ev) : r \in {[m EXCEPT !.calls = @ + 1]}})

\* the part of rx an event's payload adds
RxAdd(data) ==
  IF FirstIndex(rx, Delim) # 0 THEN <<>>
  ELSE IF FirstIndex(data, Delim) = 0 THEN data
       ELSE SubSeq(data, 1, FirstIndex(data, Delim))

Init ==
  /\ state = "LISTENING"
  /\ ps = [lc |-> "BEGIN", fill |-> 0, bufsize |-> 0, sendpos |-> 0,
           unacked |-> 0]
  /\ buffer = [i \in 1..C |-> 0]
  /\ inq = <<>>
  /\ sent = <<>>
  /\ closes = 0
  /\ conn = 0
  /\ nin = 0
  /\ ndelim = 0
  /\ nrexmit = 0
  /\ rx = <<>>
  /\ nfrag = 0
  /\ evkind = "none"
  /\ prev = "LISTENING"
  /\ invoked = FALSE
  /\ ninit = 0
  /\ ncalls = 0
  /\ early = FALSE
  /\ nev = 0

\* lines 172-184: a tcpip event with uip_connected() at the outer wait:
\* PSOCK_INIT, then the inner loop's wait at line 196
ListenConnected ==
  /\ state = "LISTENING"
  /\ conn < MaxConns
  /\ \E ev \in Events(conn, nin, ndelim, nin - Len(rx), nrexmit) :
       /\ uip_connected(ev)
       /\ LET m == Line184(Bundle(ev))
          IN  ps' = PsOf(m) /\ ninit' = m.inits
       /\ state' = IF LoopCondition(ev) THEN "SERVICING" ELSE "LISTENING"
       /\ evkind' = ev.kind
  /\ conn' = conn + 1
  /\ inq' = <<>>
  /\ sent' = <<>>
  /\ closes' = 0
  /\ nin' = 0
  /\ ndelim' = 0
  /\ nrexmit' = 0
  /\ rx' = <<>>
  /\ nfrag' = 0
  /\ prev' = state
  /\ invoked' = FALSE
  /\ ncalls' = 0
  /\ early' = FALSE
  /\ nev' = 0
  /\ UNCHANGED buffer

\* lines 172-178: a tcpip event without uip_connected() at the outer wait
ListenOther ==
  /\ state = "LISTENING"
  /\ \E ev \in Events(conn, MaxInput, 1, 1, MaxRexmit) :
       /\ ~uip_connected(ev)
       /\ evkind' = ev.kind
  /\ prev' = state
  /\ invoked' = FALSE
  /\ ncalls' = 0
  /\ UNCHANGED <<state, ps, buffer, inq, sent, closes, conn, nin, ndelim,
                 nrexmit, rx, nfrag, ninit, early, nev>>

\* lines 189-205: a tcpip event at the inner wait: handle_connection(&ps),
\* then the loop condition
ServiceEvent ==
  /\ state = "SERVICING"
  /\ prev' = state
  /\ invoked' = TRUE
  /\ nev' = Min(nev + 1, 2)
  /\ UNCHANGED conn
  /\ \E ev \in Events(conn, nin, ndelim, nin - Len(rx), nrexmit) :
       /\ evkind' = ev.kind
       /\ state' = IF LoopCondition(ev) THEN "SERVICING" ELSE "LISTENING"
       /\ nin' = nin + Len(ev.data)
       /\ ndelim' = ndelim + (IF FirstIndex(ev.data, Delim) # 0 THEN 1 ELSE 0)
       /\ \E add \in {RxAdd(ev.data)} :
            /\ rx' = rx \o add
            /\ nfrag' = IF add # <<>> THEN Min(nfrag + 1, 3) ELSE nfrag
       /\ \E m \in {InnerLoopBody(b, ev) : b \in {Bundle(ev)}} :
            /\ ps' = PsOf(m)
            /\ ninit' = m.inits
            /\ ncalls' = m.calls
            /\ early' = (early \/ (ev.data # <<>> /\ m.lc = "SEND_GREETING"))
            /\ buffer' = m.buffer
            /\ inq' = m.inq
            /\ sent' = m.sent
            /\ closes' = m.closes
            /\ nrexmit' = m.resent

Next == ListenConnected \/ ListenOther \/ ServiceEvent

Spec == Init /\ [][Next]_vars

\* an event that lets the script go on and leaves the connection up: any
\* event at the start, an acknowledgement in a send, the delimiter in the read
Advance ==
  /\ state = "SERVICING" /\ ps.lc # "END"
  /\ ServiceEvent
  /\ state' = "SERVICING"
  /\ (ps'.lc # ps.lc \/ Len(sent') > Len(sent))

\* the transport reports closed after the close request
ReportClosed ==
  /\ state = "SERVICING" /\ closes > 0
  /\ ServiceEvent
  /\ evkind' = "closed"

\* the first connection is accepted
FirstConnection == conn = 0 /\ ListenConnected

\* the run of the server over its first connection when the transport keeps delivering events,
\* acknowledges what it was handed, the peer sends its delimiter while it
\* can, and a requested close is reported
LiveSpec ==
  /\ Init
  /\ [][FirstConnection \/ ListenOther \/ ServiceEvent]_vars
  /\ WF_vars(Advance) /\ WF_vars(ReportClosed)

(* ------------------------------ properties ----------------------------- *)
\* the peer has sent its delimiter
HasDelim == FirstIndex(rx, Delim) # 0

\* L: the number of bytes the peer has sent before its delimiter
LineLen == IF HasDelim THEN Len(rx) - 1 ELSE Len(rx)

\* the first min(L, C) bytes of the peer's line
Expected == SubSeq(rx, 1, Min(LineLen, C))

\* the read step of the current connection has completed
ReadDone == ps.lc \in {"SEND_LABEL", "SEND_DATA", "SEND_FAREWELL", "END"}

\* buffer[0 .. data_length)
Captured == SubSeq(buffer, 1, ps.fill)

\* greeting ++ label ++ captured ++ farewell
Reply == Greeting \o Label \o Captured \o Farewell

\* C1: once the read step has completed on a line of L >= 1 bytes, the
\* delimiter has been seen and consumed, PSOCK_DATALEN is min(L, C), and
\* buffer[0 .. data_length) holds the first min(L, C) bytes of the line, none
\* of them the delimiter.
C1_Capture ==
  (ReadDone /\ LineLen >= 1) =>
    /\ HasDelim
    /\ FirstIndex(inq, Delim) = 0
    /\ ps.fill = Min(LineLen, C)
    /\ Captured = Expected
    /\ \A i \in 1..ps.fill : buffer[i] # Delim

\* the read step completed on the line "0123456789A\n" of connection 1
W1_Truncated ==
  /\ conn = 1 /\ ReadDone /\ LineLen > C
  /\ Captured = <<48, 49, 50, 51, 52, 53, 54, 55, 56, 57>>

\* C2: within a connection no input byte is consumed by the read step before
\* the whole greeting has been handed over, nothing after the greeting is
\* handed over before the read step has completed, and close is requested
\* only when the whole reply, farewell included, has been handed over.
C2_Order ==
  /\ (nin > Len(inq) \/ ps.fill > 0) => IsPrefix(Greeting, sent)
  /\ Len(sent) > Len(Greeting) => (ReadDone /\ HasDelim)
  /\ closes > 0 => (sent = Reply /\ ps.lc = "END")

\* close was requested on a connection that saw a retransmission and a line
\* that arrived in several events
W2_Closed == closes > 0 /\ nrexmit > 0 /\ nfrag >= 2

\* C3: the fresh bytes handed over on the current connection are a prefix of
\* the greeting until the read step completes and a prefix of greeting ++
\* label ++ buffer[0 .. data_length) ++ farewell afterwards; the farewell ends
\* in "\r\n"; when the script has finished they are the whole concatenation.
C3_Reply ==
  /\ ~ReadDone => IsPrefix(sent, Greeting)
  /\ ReadDone => (IsPrefix(Greeting \o Label, sent) /\ IsPrefix(sent, Reply))
  /\ ps.lc = "END" => sent = Reply
  /\ SubSeq(Farewell, Len(Farewell) - 1, Len(Farewell)) = <<13, 10>>

\* the script finished after capturing between 1 and C - 1 bytes
W3_Finished == ps.lc = "END" /\ ps.fill > 0 /\ ps.fill < C /\ sent = Reply

\* C4: an event that reports closed, aborted or timed out while the loop is
\* SERVICING leaves the loop in LISTENING.
C4_Teardown ==
  (prev = "SERVICING" /\ evkind \in Terminal) => state = "LISTENING"

\* a timeout tore the connection down while the script was suspended in the
\* send of the label
W4_TimedOutMidScript ==
  /\ prev = "SERVICING" /\ evkind = "timedout" /\ state = "LISTENING"
  /\ ps.lc = "SEND_LABEL"

\* C5: handle_connection is not invoked for an event that reports closed,
\* aborted or timed out, nor afterwards until a new connection is accepted.
C5_NoResume ==
  /\ (prev = "SERVICING" /\ evkind \in Terminal) => ~invoked
  /\ prev = "LISTENING" => ~invoked

\* C6: PSOCK_INIT has run once for every accepted connection and never
\* otherwise, and it runs before the first handle_connection call of the
\* connection: right after the connect event is accepted the task is at its
\* beginning with an empty buffer of size C and has not been invoked.
C6_InitOnce ==
  /\ ninit = conn
  /\ (state = "SERVICING" /\ nev = 0) =>
       (ps.lc = "BEGIN" /\ ps.fill = 0 /\ ps.bufsize = C /\ ~invoked)

\* a connect event was processed while the script was suspended in the read
\* step with bytes captured
W6_ConnectWhileServicing ==
  /\ prev = "SERVICING" /\ evkind = "connected" /\ state = "SERVICING"
  /\ ps.lc = "READTO" /\ ps.fill > 0

\* C7: a connection serviced after another starts at the greeting with fill
\* length 0, captures the first min(L, C) bytes of its own line, and what it
\* hands over is made of the fixed strings and those bytes only.
C7_NoResidue ==
  conn >= 2 =>
    /\ (state = "SERVICING" /\ nev = 0) => (ps.lc = "BEGIN" /\ ps.fill = 0)
    /\ ~ReadDone => IsPrefix(sent, Greeting)
    /\ ReadDone =>
         IsPrefix(sent, Greeting \o Label \o Expected \o Farewell)
    /\ ps.lc = "END" => sent = Greeting \o Label \o Expected \o Farewell

\* the second connection finished with a shorter line than the first, whose
\* bytes are still in buffer[] beyond the fill length
W7_ShorterSecondLine ==
  /\ conn = 2 /\ ps.lc = "END" /\ ps.fill >= 1 /\ ps.fill < C
  /\ buffer[ps.fill + 1] = PeerByte(1, ps.fill)

\* C8: for a line of L > C bytes the captured length is C and the captured
\* bytes are the first C bytes of the line, however the line was cut into
\* events.
C8_Fragmentation ==
  (ReadDone /\ LineLen > C) =>
    \A f \in 1..3 : nfrag = f => (ps.fill = C /\ Captured = SubSeq(rx, 1, C))

\* the read step completed on a line of more than C bytes that arrived in
\* three or more events
W8_ManyFragments == ReadDone /\ LineLen > C /\ nfrag = 3

C10_GreetingAtConnect ==
  (prev = "LISTENING" /\ evkind = "connected") => sent # <<>>

\* C10 amended: processing the connect event hands nothing over and does not
\* invoke handle_connection; the greeting's first segment is handed over
\* while the first event after the connect event is processed.
C10_GreetingAtFirstEvent ==
  /\ (prev = "LISTENING" /\ evkind = "connected") => (sent = <<>> /\ ~invoked)
  /\ (conn >= 1 /\ nev = 1) =>
       sent = SubSeq(Greeting, 1, Min(MSS, Len(Greeting)))

\* the first event after the connect event has been processed
W10_FirstEvent == state = "SERVICING" /\ nev = 1 /\ invoked /\ sent # <<>>

\* C11: every event processed while SERVICING that does not report closed,
\* aborted or timed out makes exactly one call of handle_connection.
C11_OncePerEvent ==
  (prev = "SERVICING" /\ evkind \notin Terminal) => (invoked /\ ncalls = 1)

\* an event without data or acknowledgement was processed while the script
\* was suspended in the read step
W11_PollInRead ==
  /\ prev = "SERVICING" /\ state = "SERVICING" /\ evkind = "event"
  /\ ps.lc = "READTO" /\ ncalls = 1 /\ nev = 2

C13_Bounds ==
  /\ ps.fill \in 0..C
  /\ ps.fill <= ps.bufsize /\ ps.bufsize <= C
  /\ Len(buffer) = C
  /\ ps.lc = "SEND_DATA" =>
       /\ ps.sendpos <= ps.fill
       /\ sent = Greeting \o Label \o SubSeq(buffer, 1, ps.sendpos)
  /\ ps.lc \in {"SEND_FAREWELL", "END"} =>
       Len(sent) <= Len(Greeting) + Len(Label) + ps.fill + Len(Farewell)

\* the second connection is sending a full buffer of captured data
W13_SendingFullBuffer ==
  conn = 2 /\ ps.lc = "SEND_DATA" /\ ps.fill = C /\ ps.sendpos = C

\* C14: when the delimiter is the first input byte the read step completes
\* with data_length 0, the reply is the label immediately followed by the
\* farewell, and close is requested once the farewell has been sent.
C14_EmptyLine ==
  (ReadDone /\ HasDelim /\ LineLen = 0) =>
    /\ ps.fill = 0
    /\ ps.lc # "SEND_DATA"
    /\ IsPrefix(sent, Greeting \o Label \o Farewell)
    /\ ps.lc = "END" => (sent = Greeting \o Label \o Farewell /\ closes = 1)
    /\ ps.lc # "END" => closes = 0

\* the second connection finished on an empty line while buffer[] still held
\* the first connection's bytes
W14_EmptySecondLine ==
  /\ conn = 2 /\ ps.lc = "END" /\ HasDelim /\ LineLen = 0 /\ closes = 1
  /\ buffer[1] = PeerByte(1, 0)

\* C16: close is requested at most once on a connection, and once the script
\* has finished an event processed in SERVICING hands nothing over, requests
\* no close and leaves the script finished.
C16_RunsOnce ==
  [][/\ closes' <= 1
     /\ (state = "SERVICING" /\ ps.lc = "END") =>
          (sent' = sent /\ closes' = closes /\ ps' = ps /\ buffer' = buffer)]_vars

\* a connect event was processed in SERVICING after the script had finished
W16_EventAfterEnd ==
  /\ ps.lc = "END" /\ state = "SERVICING" /\ prev = "SERVICING"
  /\ evkind = "connected" /\ closes = 1 /\ sent = Reply

C18_ListeningFrame ==
  [][(state = "LISTENING" /\ evkind' # "connected") =>
       /\ ps' = ps /\ buffer' = buffer
       /\ sent' = sent /\ closes' = closes /\ inq' = inq
       /\ ninit' = ninit /\ conn' = conn
       /\ ncalls' = 0 /\ ~invoked'
       /\ state' = "LISTENING"]_vars

\* a closed event of a torn-down connection was processed in LISTENING
W18_LateEvent ==
  /\ prev = "LISTENING" /\ state = "LISTENING" /\ evkind = "closed"
  /\ conn >= 1 /\ ps.lc = "READTO" /\ ps.fill > 0 /\ ncalls = 0 /\ ~invoked

\* the peer has sent all the bytes it will send and no delimiter
Starved == ndelim = 0 /\ nin = MaxInput

\* C15: a serviced connection leads to the script having handed over the
\* whole reply, requested close and finished, unless the connection is torn
\* down first or the peer runs out of input without a delimiter; and once
\* close has been requested the loop gets back to LISTENING.
C15_Finishes ==
  /\ (state = "SERVICING" /\ ~Starved) ~>
       \/ (ps.lc = "END" /\ closes = 1 /\ sent = Reply)
       \/ state = "LISTENING"
       \/ Starved
  /\ (state = "SERVICING" /\ closes > 0) ~> state = "LISTENING"

\* the script finished, close was reported and the loop is back in LISTENING
W15_ClosedAfterFinish ==
  /\ ps.lc = "END" /\ closes = 1 /\ sent = Reply /\ ps.fill > 0
  /\ prev = "SERVICING" /\ evkind = "closed" /\ state = "LISTENING"

====
